---- MODULE Spec2Model ----
(***************************************************************************)
(* Model of convert_jupyter_md_pandoc.py: a script that derives a markdown *)
(* path and a PDF path from a notebook path, runs `jupyter nbconvert`, and *)
(* then runs `pandoc` with one --metadata argument per metadata entry.     *)
(*                                                                         *)
(* Paths are sequences of one-character strings so that basename, dirname, *)
(* join and split work on characters as the Python functions do.  Other    *)
(* command-line words are TLA+ strings.                                    *)
(***************************************************************************)
EXTENDS Integers, Sequences, FiniteSets, TLC

(* ------------------------------ bounds --------------------------------- *)
\* longest notebook stem (the file name without ".ipynb") drawn by Init
MaxStem == 3
\* deepest directory nesting drawn by Init
MaxDepth == 2
\* largest exit status an external tool returns in the model
MaxRet == 2

(* --------------------------- string helpers ---------------------------- *)
\* str.rfind(c) + 1: the position (1-based) of the last c in s, 0 if none
RFind(s, c) ==
    IF \E i \in 1..Len(s) : s[i] = c
    THEN CHOOSE i \in 1..Len(s) : s[i] = c /\ \A j \in (i+1)..Len(s) : s[j] # c
    ELSE 0

\* the position (1-based) of the first c in s, 0 if none
Find(s, c) ==
    IF \E i \in 1..Len(s) : s[i] = c
    THEN CHOOSE i \in 1..Len(s) : s[i] = c /\ \A j \in 1..(i-1) : s[j] # c
    ELSE 0

\* str.rstrip(c)
RStrip(s, c) ==
    IF \A i \in 1..Len(s) : s[i] = c
    THEN << >>
    ELSE SubSeq(s, 1, CHOOSE i \in 1..Len(s) :
                         s[i] # c /\ \A j \in (i+1)..Len(s) : s[j] = c)

\* os.path.basename (posixpath): everything after the last "/"
basename(p) == SubSeq(p, RFind(p, "/") + 1, Len(p))

\* os.path.dirname (posixpath): everything up to the last "/", with the
\* trailing slashes removed unless the head consists of slashes only
dirname(p) ==
    LET head == SubSeq(p, 1, RFind(p, "/"))
    IN  IF head # << >> /\ (\E i \in 1..Len(head) : head[i] # "/")
        THEN RStrip(head, "/")
        ELSE head

\* os.path.join(a, b) (posixpath) for two components
join(a, b) ==
    IF b # << >> /\ b[1] = "/" THEN b
    ELSE IF a = << >> \/ a[Len(a)] = "/" THEN a \o b
    ELSE a \o <<"/">> \o b

\* s.split(".")[0]: the text before the FIRST ".", all of s if it has none
SplitDotFirst(s) ==
    IF Find(s, ".") = 0 THEN s ELSE SubSeq(s, 1, Find(s, ".") - 1)

\* os.path.splitext(name)[0] for a file name without "/": the last "." starts
\* the extension unless only dots precede it
splitext_root(name) ==
    LET d == RFind(name, ".")
    IN  IF d > 1 /\ (\E i \in 1..(d-1) : name[i] # ".")
        THEN SubSeq(name, 1, d - 1)
        ELSE name

EXT_IPYNB == <<".", "i", "p", "y", "n", "b">>
EXT_MD == <<".", "m", "d">>
EXT_PDF == <<".", "p", "d", "f">>

(* ------------------------------ inputs --------------------------------- *)
\* all sequences over S of length lo..hi
SeqsOf(S, lo, hi) == UNION { [1..n -> S] : n \in lo..hi }

RECURSIVE Flatten(_)
\* "/c1/c2/..." for a sequence of directory names
Flatten(cs) ==
    IF cs = << >> THEN << >> ELSE <<"/">> \o Head(cs) \o Flatten(Tail(cs))

DirNames == { <<"x">>, <<"y", ".", "d">> }
StemChars == { "a", "b", "." }

\* the notebook path the script is configured with
ConfiguredNotebookPath ==
    <<
       "/", "U", "s", "e", "r", "s", "/", "k", "a", "r", "t", "h", "i", "k",
       "/", "D", "e", "s", "k", "t", "o", "p", "/", "A", "u", "t", "o", "y",
       "o", "s", "/", "d", "a", "t", "a", "_", "a", "n", "a", "l", "y", "s",
       "t", "_", "a", "s", "s", "i", "g", "n", "m", "e", "n", "t", "/", "a",
       "u", "t", "o", "y", "o", "s", "_", "e", "y", "e", "_", "b", "l", "i",
       "n", "k", "_", "a", "n", "a", "l", "y", "s", "i", "s", "_", "k", "a",
       "r", "t", "h", "i", "k", "_", "d", "a", "n", "i", ".", "i", "p", "y",
       "n", "b"
    >>

\* a stem starts and ends with a letter and has no two dots in a row
ValidStem(st) ==
    /\ st[1] # "." /\ st[Len(st)] # "."
    /\ \A i \in 1..(Len(st) - 1) : ~(st[i] = "." /\ st[i+1] = ".")

NotebookStems == { st \in SeqsOf(StemChars, 1, MaxStem) : ValidStem(st) }

\* absolute notebook paths: <dirs>/<stem>.ipynb
NotebookPaths ==
    { Flatten(ds) \o <<"/">> \o st \o EXT_IPYNB :
        ds \in SeqsOf(DirNames, 0, MaxDepth), st \in NotebookStems }
    \cup { ConfiguredNotebookPath }

\* markdown files that may already lie next to the notebook (at most one)
OtherMarkdownNames == { <<"a">> \o EXT_MD, <<"b">> \o EXT_MD }

ReturnCodes == 0..MaxRet

(* ----------------------------- constants ------------------------------- *)
\* the metadata dict, in insertion order (dict iteration order)
metadata ==
    << <<"title", "Autoyos: Eye Blink Data Analysis">>,
       <<"author", "Karthik Dani: 1BM22MD022">>,
       <<"date", "2024-06-26">>,
       <<"abstract", "This study investigates blinking behavior using longitudinal data analysis techniques. By analyzing blink durations, interblink intervals, and blink rates over multiple months, we uncover nuanced patterns and variations. Statistical analysis and visualizations reveal trends in blinking habits, shedding light on potential factors influencing these behaviors. This exploration offers valuable insights into the dynamics of blinking patterns.">>,
       <<"subtitle", "Statistically Understanding Blinking Behavior across April, May and June">>,
       <<"keywords", "Data analysis">>,
       <<"thanks", "*">>,
       <<"email", "karthikdani14@gmail.com">>,
       <<"institute", "BMS College of Engineering, Bangalore">> >>

\* the value given to --TagRemovePreprocessor.remove_cell_tags, as written
RemoveCellTagsValue == "\"exclude-output"

\* the argument list of the nbconvert call
NbconvertCommand(path) ==
    << "jupyter", "nbconvert", "--to", "markdown",
       "--TagRemovePreprocessor.enabled=True",
       "--TagRemovePreprocessor.remove_cell_tags=" \o RemoveCellTagsValue,
       path >>

\* mutant: key and value joined by ":" instead of "="
MetadataArg_Colon(key, value) == "--metadata=" \o key \o ":" \o value

\* f"--metadata={key}={value}"
MetadataArg(key, value) == "--metadata=" \o key \o "=" \o value

\* the file nbconvert --to markdown writes for a notebook: next to the
\* notebook, the notebook's name with its extension replaced by .md
NbconvertOutput(path) ==
    join(dirname(path), splitext_root(basename(path)) \o EXT_MD)

\* line 5
base_filename_of(path) == SplitDotFirst(basename(path))

\* line 6
markdown_path_of(path) ==
    join(dirname(path), base_filename_of(path) \o EXT_MD)

\* line 7
pdf_output_path_of(path) ==
    join(dirname(path), base_filename_of(path) \o EXT_PDF)

(* ------------------------------- state --------------------------------- *)
VARIABLES
    pc,               \* position in the script
    notebook_path,    \* line 4
    base_filename,    \* line 5
    markdown_path,    \* line 6
    pdf_output_path,  \* line 7
    pandoc_command,   \* lines 29-32
    idx,              \* position of the for loop in metadata
    proc,             \* per tool: "none", "running", "exited", "nostart"
    ret,              \* per tool: exit status, meaningful once exited
    calls,            \* argument lists handed to subprocess.run, in order
    stdout,           \* what print() wrote, in order
    files,            \* files present on disk
    exit_code         \* exit status the interpreter ends with (0 unless set)

vars == << pc, notebook_path, base_filename, markdown_path, pdf_output_path,
           pandoc_command, idx, proc, ret, calls, stdout, files, exit_code >>

Tools == { "nbconvert", "pandoc" }

Init ==
    /\ notebook_path \in NotebookPaths
    /\ pc = "derive"
    /\ base_filename = << >>
    /\ markdown_path = << >>
    /\ pdf_output_path = << >>
    /\ pandoc_command = << >>
    /\ idx = 0
    /\ proc = [t \in Tools |-> "none"]
    /\ ret = [t \in Tools |-> 0]
    /\ calls = << >>
    /\ stdout = << >>
    /\ \E old \in { {} } \cup { { join(dirname(notebook_path), n) } :
                                  n \in OtherMarkdownNames } :
          files = { notebook_path } \cup old
    /\ exit_code = 0

(* --------------------------- printed messages -------------------------- *)
MsgMdOk == "Converted notebook to Markdown: "
MsgMdErr == "Error during Markdown conversion: "
MsgPdfOk == "Successfully converted Markdown to PDF: "
MsgPdfErr == "Error during PDF conversion: "

\* print(f"<text>{arg}")
Printed(text, arg) == [text |-> text, arg |-> arg]

\* subprocess.CalledProcessError(returncode, cmd)
CalledProcessError(cmd, rc) == [cmd |-> cmd, returncode |-> rc]

(* ------------------------------ actions -------------------------------- *)
\* lines 5-7: the base name and the two derived paths
DerivePaths ==
    /\ pc = "derive"
    /\ base_filename' = base_filename_of(notebook_path)
    /\ markdown_path' = markdown_path_of(notebook_path)
    /\ pdf_output_path' = pdf_output_path_of(notebook_path)
    /\ pc' = "md_run"
    /\ UNCHANGED << notebook_path, pandoc_command, idx, proc, ret, calls,
                    stdout, files, exit_code >>

\* mutant: Popen-style call that does not wait for the child to exit
StartNbconvert_NoWait ==
    /\ pc = "md_run"
    /\ calls' = Append(calls, NbconvertCommand(notebook_path))
    /\ proc' = [proc EXCEPT !["nbconvert"] = "running"]
    /\ pc' = "md_print"
    /\ UNCHANGED << notebook_path, base_filename, markdown_path,
                    pdf_output_path, pandoc_command, idx, ret, stdout, files,
                    exit_code >>

\* line 22: subprocess.run starts jupyter nbconvert and blocks on it
StartNbconvert ==
    /\ pc = "md_run"
    /\ calls' = Append(calls, NbconvertCommand(notebook_path))
    /\ proc' = [proc EXCEPT !["nbconvert"] = "running"]
    /\ pc' = "md_wait"
    /\ UNCHANGED << notebook_path, base_filename, markdown_path,
                    pdf_output_path, pandoc_command, idx, ret, stdout, files,
                    exit_code >>

\* line 22: subprocess.run cannot start jupyter (OSError, e.g. not on PATH);
\* the except clause of line 25 names CalledProcessError only, so the
\* exception is uncaught and the interpreter exits with status 1
NbconvertNotStarted ==
    /\ pc = "md_run"
    /\ calls' = Append(calls, NbconvertCommand(notebook_path))
    /\ proc' = [proc EXCEPT !["nbconvert"] = "nostart"]
    /\ exit_code' = 1
    /\ pc' = "done"
    /\ UNCHANGED << notebook_path, base_filename, markdown_path,
                    pdf_output_path, pandoc_command, idx, ret, stdout, files >>

\* line 22: the nbconvert process exits; status 0 means it wrote its output,
\* check=True turns any other status into CalledProcessError
NbconvertExits ==
    /\ pc = "md_wait"
    /\ proc["nbconvert"] = "running"
    /\ \E rc \in ReturnCodes :
        /\ ret' = [ret EXCEPT !["nbconvert"] = rc]
        /\ files' = IF rc = 0
                    THEN files \cup { NbconvertOutput(calls[Len(calls)][7]) }
                    ELSE files
        /\ pc' = IF rc = 0 THEN "md_print" ELSE "md_except"
    /\ proc' = [proc EXCEPT !["nbconvert"] = "exited"]
    /\ UNCHANGED << notebook_path, base_filename, markdown_path,
                    pdf_output_path, pandoc_command, idx, calls, stdout,
                    exit_code >>

\* line 23
PrintMarkdownConverted ==
    /\ pc = "md_print"
    /\ stdout' = Append(stdout, Printed(MsgMdOk, markdown_path))
    /\ pc' = "build"
    /\ UNCHANGED << notebook_path, base_filename, markdown_path,
                    pdf_output_path, pandoc_command, idx, proc, ret, calls,
                    files, exit_code >>

\* mutant: the handler reports the error but does not exit
MarkdownError_NoExit ==
    /\ pc = "md_except"
    /\ stdout' = Append(stdout,
          Printed(MsgMdErr, CalledProcessError(calls[Len(calls)], ret["nbconvert"])))
    /\ pc' = "build"
    /\ UNCHANGED << notebook_path, base_filename, markdown_path,
                    pdf_output_path, pandoc_command, idx, proc, ret, calls,
                    files, exit_code >>

\* mutant: the handler reports the error and runs the conversion again
MarkdownError_Retry ==
    /\ pc = "md_except"
    /\ stdout' = Append(stdout,
          Printed(MsgMdErr, CalledProcessError(calls[Len(calls)], ret["nbconvert"])))
    /\ IF Len(calls) < 2
       THEN pc' = "md_run" /\ UNCHANGED exit_code
       ELSE pc' = "done" /\ exit_code' = 1
    /\ UNCHANGED << notebook_path, base_filename, markdown_path,
                    pdf_output_path, pandoc_command, idx, proc, ret, calls,
                    files >>

\* lines 25-27: report the error and exit(1)
MarkdownError ==
    /\ pc = "md_except"
    /\ stdout' = Append(stdout,
          Printed(MsgMdErr, CalledProcessError(calls[Len(calls)], ret["nbconvert"])))
    /\ exit_code' = 1
    /\ pc' = "done"
    /\ UNCHANGED << notebook_path, base_filename, markdown_path,
                    pdf_output_path, pandoc_command, idx, proc, ret, calls,
                    files >>

\* line 29
BuildPandocCommand ==
    /\ pc = "build"
    /\ pandoc_command' = << "pandoc", markdown_path, "-o", pdf_output_path >>
    /\ idx' = 1
    /\ pc' = "loop"
    /\ UNCHANGED << notebook_path, base_filename, markdown_path,
                    pdf_output_path, proc, ret, calls, stdout, files,
                    exit_code >>

\* lines 31-32: one iteration of the loop over metadata.items()
AppendMetadata ==
    /\ pc = "loop"
    /\ idx <= Len(metadata)
    /\ pandoc_command' =
          Append(pandoc_command, MetadataArg(metadata[idx][1], metadata[idx][2]))
    /\ idx' = idx + 1
    /\ UNCHANGED << pc, notebook_path, base_filename, markdown_path,
                    pdf_output_path, proc, ret, calls, stdout, files,
                    exit_code >>

\* line 36: subprocess.run starts pandoc and blocks on it
StartPandoc ==
    /\ pc = "loop"
    /\ idx > Len(metadata)
    /\ calls' = Append(calls, pandoc_command)
    /\ proc' = [proc EXCEPT !["pandoc"] = "running"]
    /\ pc' = "pdf_wait"
    /\ UNCHANGED << notebook_path, base_filename, markdown_path,
                    pdf_output_path, pandoc_command, idx, ret, stdout, files,
                    exit_code >>

\* line 36: subprocess.run cannot start pandoc (OSError); line 38 catches
\* CalledProcessError only, so the interpreter exits with status 1
PandocNotStarted ==
    /\ pc = "loop"
    /\ idx > Len(metadata)
    /\ calls' = Append(calls, pandoc_command)
    /\ proc' = [proc EXCEPT !["pandoc"] = "nostart"]
    /\ exit_code' = 1
    /\ pc' = "done"
    /\ UNCHANGED << notebook_path, base_filename, markdown_path,
                    pdf_output_path, pandoc_command, idx, ret, stdout, files >>

\* line 36: the pandoc process exits; it can exit 0 only if its input file
\* (argument 2) exists, and then it has written its output (argument 4)
PandocExits ==
    /\ pc = "pdf_wait"
    /\ proc["pandoc"] = "running"
    /\ \E rc \in ReturnCodes :
        /\ rc = 0 => calls[Len(calls)][2] \in files
        /\ ret' = [ret EXCEPT !["pandoc"] = rc]
        /\ files' = IF rc = 0 THEN files \cup { calls[Len(calls)][4] } ELSE files
        /\ pc' = IF rc = 0 THEN "pdf_print" ELSE "pdf_except"
    /\ proc' = [proc EXCEPT !["pandoc"] = "exited"]
    /\ UNCHANGED << notebook_path, base_filename, markdown_path,
                    pdf_output_path, pandoc_command, idx, calls, stdout,
                    exit_code >>

\* line 37, then the script runs off its end: exit status 0
PrintPdfConverted ==
    /\ pc = "pdf_print"
    /\ stdout' = Append(stdout, Printed(MsgPdfOk, pdf_output_path))
    /\ pc' = "done"
    /\ UNCHANGED << notebook_path, base_filename, markdown_path,
                    pdf_output_path, pandoc_command, idx, proc, ret, calls,
                    files, exit_code >>

\* mutant: the handler exits with status 1 like the markdown handler
PdfError_Exit1 ==
    /\ pc = "pdf_except"
    /\ stdout' = Append(stdout,
          Printed(MsgPdfErr, CalledProcessError(calls[Len(calls)], ret["pandoc"])))
    /\ exit_code' = 1
    /\ pc' = "done"
    /\ UNCHANGED << notebook_path, base_filename, markdown_path,
                    pdf_output_path, pandoc_command, idx, proc, ret, calls,
                    files >>

\* mutant: the handler swallows the error without reporting it
PdfError_Silent ==
    /\ pc = "pdf_except"
    /\ pc' = "done"
    /\ UNCHANGED << notebook_path, base_filename, markdown_path,
                    pdf_output_path, pandoc_command, idx, proc, ret, calls,
                    stdout, files, exit_code >>

\* lines 38-39: report the error, then the script runs off its end: status 0
PdfError ==
    /\ pc = "pdf_except"
    /\ stdout' = Append(stdout,
          Printed(MsgPdfErr, CalledProcessError(calls[Len(calls)], ret["pandoc"])))
    /\ pc' = "done"
    /\ UNCHANGED << notebook_path, base_filename, markdown_path,
                    pdf_output_path, pandoc_command, idx, proc, ret, calls,
                    files, exit_code >>

Next ==
    \/ DerivePaths
    \/ StartNbconvert
    \/ NbconvertNotStarted
    \/ NbconvertExits
    \/ PrintMarkdownConverted
    \/ MarkdownError
    \/ BuildPandocCommand
    \/ AppendMetadata
    \/ StartPandoc
    \/ PandocNotStarted
    \/ PandocExits
    \/ PrintPdfConverted
    \/ PdfError

Spec == Init /\ [][Next]_vars

\* a started external tool exits and the interpreter keeps executing
FairSpec == Spec /\ WF_vars(Next)

(* ------------------------- derived observations ------------------------ *)
Exited(t) == proc[t] = "exited"
ExitedZero(t) == proc[t] = "exited" /\ ret[t] = 0
ExitedNonZero(t) == proc[t] = "exited" /\ ret[t] # 0

\* the positions in calls of the invocations of one program
CallsOf(program) == { i \in 1..Len(calls) : calls[i][1] = program }

\* the positions in stdout of the messages with one text
PrintsOf(text) == { i \in 1..Len(stdout) : stdout[i].text = text }

\* the markdown stage failed: nbconvert exited non-zero or could not start
MarkdownStageFailed == ExitedNonZero("nbconvert") \/ proc["nbconvert"] = "nostart"

(* ------------------------------- claims -------------------------------- *)
\* C1: if jupyter nbconvert exits non-zero, the script exits with status 1
\* and pandoc is never invoked in that run.
C1_NbconvertFailureAborts ==
    ExitedNonZero("nbconvert") =>
        /\ proc["pandoc"] = "none"
        /\ CallsOf("pandoc") = {}
        /\ pc \in { "md_except", "done" }
        /\ (pc = "done" => exit_code = 1)

C1_Witness ==
    /\ pc = "done"
    /\ ExitedNonZero("nbconvert")
    /\ exit_code = 1
    /\ Len(calls) = 1

\* C2 as stated: the exit status is 1 if the markdown stage fails and 0 in
\* every other run.
C2_ExitOneOnlyOnMarkdownFailure ==
    pc = "done" => exit_code = (IF MarkdownStageFailed THEN 1 ELSE 0)

\* C2 as amended: the exit status is 1 if the markdown stage fails or pandoc
\* cannot be started, and 0 in every run in which pandoc ran and exited; a
\* non-zero exit of pandoc is reported and leaves the exit status 0.
C2_ExitCode ==
    pc = "done" =>
        /\ exit_code =
             (IF MarkdownStageFailed \/ proc["pandoc"] = "nostart" THEN 1 ELSE 0)
        /\ Exited("pandoc") => exit_code = 0
        /\ ExitedNonZero("pandoc") =>
             /\ exit_code = 0
             /\ stdout[Len(stdout)].text = MsgPdfErr

C2_Witness ==
    /\ pc = "done"
    /\ ExitedZero("nbconvert")
    /\ ExitedNonZero("pandoc")
    /\ exit_code = 0

\* C3: pandoc is started only after the nbconvert process has exited, and
\* only if it exited with status 0; the two never run at the same time and
\* the pandoc call never precedes the nbconvert call.
C3_StagesSequential ==
    /\ proc["pandoc"] # "none" => ExitedZero("nbconvert")
    /\ ~(proc["nbconvert"] = "running" /\ proc["pandoc"] = "running")
    /\ \A i \in CallsOf("pandoc") : \E j \in CallsOf("jupyter") : j < i
    /\ CallsOf("pandoc") # {} => ExitedZero("nbconvert")

C3_Witness ==
    /\ proc["pandoc"] = "running"
    /\ ExitedZero("nbconvert")
    /\ Len(calls) = 2

\* the keys of the metadata table in the order the claim lists them
MetadataKeys ==
    << "title", "author", "date", "abstract", "subtitle", "keywords",
       "thanks", "email", "institute" >>

\* the value the metadata table holds for a key
MetadataValue(key) ==
    metadata[CHOOSE i \in 1..Len(metadata) : metadata[i][1] = key][2]

\* C4: the pandoc argument list is pandoc, markdown_path, -o,
\* pdf_output_path, then exactly one --metadata=key=value per entry of the
\* metadata table, in table order, values verbatim, no key repeated or
\* omitted.
C4_PandocArguments ==
    \A i \in CallsOf("pandoc") :
        LET argv == calls[i] IN
        /\ Len(argv) = 4 + Len(MetadataKeys)
        /\ SubSeq(argv, 1, 4) = << "pandoc", markdown_path, "-o", pdf_output_path >>
        /\ \A k \in 1..Len(MetadataKeys) :
              argv[4 + k] = "--metadata=" \o MetadataKeys[k] \o "="
                               \o MetadataValue(MetadataKeys[k])
        /\ argv[5] = "--metadata=title=Autoyos: Eye Blink Data Analysis"
        /\ argv[6] = "--metadata=author=Karthik Dani: 1BM22MD022"
        /\ argv[11] = "--metadata=thanks=*"

C4_Witness ==
    /\ CallsOf("pandoc") = { 2 }
    /\ Len(calls[2]) = 13
    /\ proc["pandoc"] \in { "running", "nostart" }

\* C5: for every notebook path the base filename is the file name with only
\* its final extension removed, and the markdown and PDF paths are that base
\* plus .md / .pdf in the notebook's directory.
C5_DerivedPaths ==
    pc # "derive" =>
        LET base == splitext_root(basename(notebook_path)) IN
        /\ base_filename = base
        /\ markdown_path = join(dirname(notebook_path), base \o EXT_MD)
        /\ pdf_output_path = join(dirname(notebook_path), base \o EXT_PDF)

\* C6: when both tools succeed, the markdown file pandoc read is the file
\* nbconvert produced for the notebook, and the run ends with that markdown
\* file and the PDF on disk at the derived paths.
C6_PandocReadsNbconvertOutput ==
    (ExitedZero("nbconvert") /\ ExitedZero("pandoc")) =>
        /\ calls[2][2] = markdown_path
        /\ markdown_path = NbconvertOutput(notebook_path)
        /\ markdown_path \in files
        /\ pdf_output_path \in files

\* C7: two notebook paths in one directory with different file names get
\* different markdown names and different PDF names, and the markdown and
\* PDF paths of one notebook share directory and base and differ only in
\* the .md / .pdf suffix.
C7_DerivedNamesFollowFilename ==
    pc # "derive" =>
        /\ \A q \in NotebookPaths :
              (dirname(q) = dirname(notebook_path)
                 /\ basename(q) # basename(notebook_path)) =>
                    /\ markdown_path_of(q) # markdown_path
                    /\ pdf_output_path_of(q) # pdf_output_path
        /\ dirname(markdown_path) = dirname(pdf_output_path)
        /\ basename(markdown_path) = base_filename \o EXT_MD
        /\ basename(pdf_output_path) = base_filename \o EXT_PDF

\* C8: every run terminates, nbconvert is invoked exactly once and pandoc
\* at most once; no call is retried and no other external call is made.
C8_TerminatesCallsOnce ==
    /\ <>(pc = "done")
    /\ [](/\ Cardinality(CallsOf("jupyter")) <= 1
          /\ Cardinality(CallsOf("pandoc")) <= 1
          /\ CallsOf("jupyter") \cup CallsOf("pandoc") = 1..Len(calls)
          /\ (pc = "done" => Cardinality(CallsOf("jupyter")) = 1))

C8_Witness ==
    /\ pc = "done"
    /\ ExitedNonZero("pandoc")
    /\ Len(calls) = 2
    /\ CallsOf("jupyter") = { 1 }

\* what a finished stage has reported: the success message with the path
\* exactly once and nothing else, or the error message exactly once and
\* nothing else
ReportsSuccess(okText, errText, path) ==
    /\ Cardinality(PrintsOf(okText)) = 1
    /\ PrintsOf(errText) = {}
    /\ \A i \in PrintsOf(okText) : stdout[i].arg = path

ReportsError(okText, errText) ==
    /\ Cardinality(PrintsOf(errText)) = 1
    /\ PrintsOf(okText) = {}

\* C9 as stated: every stage that was attempted has, at the end of the run,
\* reported exactly one outcome.
C9_EveryAttemptedStageReports ==
    pc = "done" =>
        /\ proc["nbconvert"] # "none" =>
              Cardinality(PrintsOf(MsgMdOk) \cup PrintsOf(MsgMdErr)) = 1
        /\ proc["pandoc"] # "none" =>
              Cardinality(PrintsOf(MsgPdfOk) \cup PrintsOf(MsgPdfErr)) = 1

\* C9 as amended: each stage whose external process ran and exited reports
\* exactly one outcome, the success message naming the derived path iff the
\* process exited zero and the error message iff it exited non-zero; a stage
\* whose tool could not be started reports nothing; the stage 1 report
\* precedes any stage 2 report.
C9_StageReports ==
    /\ PrintsOf(MsgMdOk) # {} => ExitedZero("nbconvert")
    /\ PrintsOf(MsgMdErr) # {} => ExitedNonZero("nbconvert")
    /\ PrintsOf(MsgPdfOk) # {} => ExitedZero("pandoc")
    /\ PrintsOf(MsgPdfErr) # {} => ExitedNonZero("pandoc")
    /\ \A i \in PrintsOf(MsgPdfOk) \cup PrintsOf(MsgPdfErr) :
          \E j \in PrintsOf(MsgMdOk) \cup PrintsOf(MsgMdErr) : j < i
    /\ PrintsOf(MsgMdOk) \cup PrintsOf(MsgMdErr) \cup PrintsOf(MsgPdfOk)
          \cup PrintsOf(MsgPdfErr) = 1..Len(stdout)
    /\ pc = "done" =>
          /\ ExitedZero("nbconvert") => ReportsSuccess(MsgMdOk, MsgMdErr, markdown_path)
          /\ ExitedNonZero("nbconvert") => ReportsError(MsgMdOk, MsgMdErr)
          /\ ExitedZero("pandoc") => ReportsSuccess(MsgPdfOk, MsgPdfErr, pdf_output_path)
          /\ ExitedNonZero("pandoc") => ReportsError(MsgPdfOk, MsgPdfErr)
          /\ ~Exited("nbconvert") => PrintsOf(MsgMdOk) \cup PrintsOf(MsgMdErr) = {}
          /\ ~Exited("pandoc") => PrintsOf(MsgPdfOk) \cup PrintsOf(MsgPdfErr) = {}

C9_Witness ==
    /\ pc = "done"
    /\ ExitedZero("nbconvert")
    /\ ExitedNonZero("pandoc")
    /\ Len(stdout) = 2
    /\ stdout[1].text = MsgMdOk
    /\ stdout[2].text = MsgPdfErr

\* C10: nbconvert is invoked with the flags requesting markdown output and
\* tag removal for the tag exclude-output, and with the notebook path the
\* derived paths come from as its final argument; the notebook path and the
\* derived paths do not change between the two calls.
C10_NbconvertArguments ==
    /\ \A i \in CallsOf("jupyter") :
          /\ Len(calls[i]) = 7
          /\ SubSeq(calls[i], 1, 5) =
                << "jupyter", "nbconvert", "--to", "markdown",
                   "--TagRemovePreprocessor.enabled=True" >>
          /\ calls[i][6] \in
                { "--TagRemovePreprocessor.remove_cell_tags=exclude-output",
                  "--TagRemovePreprocessor.remove_cell_tags=\"exclude-output\"",
                  "--TagRemovePreprocessor.remove_cell_tags='exclude-output'" }
          /\ calls[i][7] = notebook_path
    /\ CallsOf("pandoc") # {} =>
          /\ markdown_path = markdown_path_of(calls[1][7])
          /\ pdf_output_path = pdf_output_path_of(calls[1][7])

====
